---- MODULE Spec2Model ----
(***************************************************************************)
(* Model of SKOSGraphService (src/app/skos/graph.py): the lazily loaded,   *)
(* mtime-cached graph snapshot with its lock, reload(), get_graph(), and   *)
(* the query helpers list_concepts, search_concepts, serialize and         *)
(* _select_lang_literal.                                                   *)
(*                                                                         *)
(* Texts are sequences of one-character strings so that str.lower() and    *)
(* the substring test are computed, not assumed.  Optional values are      *)
(* records or reserved values so that "is None" is an ordinary equality.   *)
(***************************************************************************)
EXTENDS Integers, Sequences, FiniteSets, TLC

\* ------------------------------------------------------------------------
\* Bounds of the model
\* ------------------------------------------------------------------------
NumThreads == 2
MaxMtime == 2
MaxLits == 3
MaxConcepts == 2
MaxLimit == 3
MaxOffset == 4

\* ------------------------------------------------------------------------
\* Texts, str.lower(), substring
\* ------------------------------------------------------------------------
UpperOf ==
  [a |-> "A", b |-> "B", c |-> "C", d |-> "D", e |-> "E", f |-> "F", i |-> "I",
   j |-> "J", l |-> "L", m |-> "M", n |-> "N", o |-> "O", p |-> "P",
   r |-> "R", s |-> "S", t |-> "T", u |-> "U", v |-> "V", x |-> "X"]

LowerChar(c) ==
  IF \E k \in DOMAIN UpperOf : UpperOf[k] = c
  THEN CHOOSE k \in DOMAIN UpperOf : UpperOf[k] = c
  ELSE c

Lower_NoFold(s) == s

Lower(s) == [k \in 1..Len(s) |-> LowerChar(s[k])]

Contains(needle, hay) ==
  \E k \in 0..(Len(hay) - Len(needle)) :
    \A j \in 1..Len(needle) : hay[k + j] = needle[j]

\* ------------------------------------------------------------------------
\* RDF terms
\* ------------------------------------------------------------------------
None == [kind |-> "none"]
NoLang == "nolang"
default_language == "en"

Lit(text, lang) == [kind |-> "lit", lang |-> lang, text |-> text]
Iri(text) == [kind |-> "iri", lang |-> NoLang, text |-> text]

IsLiteral(x) == x.kind = "lit"

\* bool(x) as Python's `or` sees it: None is false, a Literal (and a
\* URIRef, which is a str) is false exactly when its text is empty.
Truthy(x) == x # None /\ Len(x.text) > 0

PyOr(a, b) == IF Truthy(a) THEN a ELSE b

Str(x) == IF x = None THEN None ELSE [kind |-> "str", text |-> x.text]

ResolveLanguage(language) ==
  IF language = NoLang THEN default_language ELSE language

\* ------------------------------------------------------------------------
\* _select_lang_literal
\* ------------------------------------------------------------------------
RECURSIVE SelectScan(_, _, _, _, _)
SelectScan(literals, language, k, best_exact, best_langless) ==
  IF k > Len(literals) THEN [exact |-> best_exact, langless |-> best_langless]
  ELSE LET lit == literals[k] IN
    IF ~IsLiteral(lit)
      THEN SelectScan(literals, language, k + 1, best_exact, best_langless)
    ELSE IF lit.lang = language
      THEN [exact |-> lit, langless |-> best_langless]
    ELSE IF lit.lang = NoLang
      THEN SelectScan(literals, language, k + 1, best_exact, lit)
    ELSE SelectScan(literals, language, k + 1, best_exact, best_langless)

select_lang_literal(literals, language) ==
  LET scan == SelectScan(literals, language, 1, None, None)
      first == IF Len(literals) > 0 THEN literals[1] ELSE None
  IN PyOr(scan.exact, PyOr(scan.langless, first))

get_best_label(c, language) == Str(select_lang_literal(c.pref, language))

get_best_definition(c, language) == Str(select_lang_literal(c.defs, language))

ConceptSummary(iri, pref_label, definition) ==
  [iri |-> iri, pref_label |-> pref_label, definition |-> definition]

\* ------------------------------------------------------------------------
\* Graph snapshots: the subjects typed skos:Concept, in graph order, each
\* with its prefLabel, altLabel and definition objects.
\* ------------------------------------------------------------------------
Concept(iri, pref, alt, defs) ==
  [iri |-> iri, pref |-> pref, alt |-> alt, defs |-> defs]

\* all_concepts[offset: offset + limit] with Python's slice clamping
SliceIndex(k, n) ==
  IF k < 0 THEN (IF k + n < 0 THEN 0 ELSE k + n)
  ELSE IF k > n THEN n ELSE k

PySlice(s, lo, hi) ==
  LET a == SliceIndex(lo, Len(s))
      b == SliceIndex(hi, Len(s))
  IN IF a < b THEN SubSeq(s, a + 1, b) ELSE << >>

PageEnd_OffByOne(offset, limit) == offset + limit - 1

PageEnd(offset, limit) == offset + limit

list_concepts(g, limit, offset, language) ==
  LET lang == ResolveLanguage(language)
      all_concepts == g
      total == Len(all_concepts)
      page == PySlice(all_concepts, offset, PageEnd(offset, limit))
  IN [concepts |->
        [k \in 1..Len(page) |->
           ConceptSummary(page[k].iri, get_best_label(page[k], lang),
                          get_best_definition(page[k], lang))],
      total |-> total]

\* ------------------------------------------------------------------------
\* search_concepts
\* ------------------------------------------------------------------------
LabelVisible_ExactOnly(label, language) == label.lang = language

LabelVisible(label, language) ==
  label.lang = NoLang \/ label.lang = language

RECURSIVE MatchLabel(_, _, _, _)
MatchLabel(labels, k, lower_q, language) ==
  IF k > Len(labels) THEN None
  ELSE LET label == labels[k] IN
    IF /\ IsLiteral(label)
       /\ LabelVisible(label, language)
       /\ Contains(lower_q, Lower(label.text))
    THEN Str(label)
    ELSE MatchLabel(labels, k + 1, lower_q, language)

RECURSIVE SearchScan(_, _, _, _, _, _)
SearchScan(g, k, lower_q, limit, language, results) ==
  IF k > Len(g) THEN results
  ELSE LET subject == g[k]
           matched_label == MatchLabel(subject.pref \o subject.alt, 1,
                                       lower_q, language)
           results2 ==
             IF matched_label # None
             THEN Append(results,
                    ConceptSummary(subject.iri, matched_label,
                                   get_best_definition(subject, language)))
             ELSE results
       IN IF Len(results2) >= limit THEN results2
          ELSE SearchScan(g, k + 1, lower_q, limit, language, results2)

search_concepts(g, query, limit, language) ==
  SearchScan(g, 1, Lower(query), limit, ResolveLanguage(language), << >>)

\* ------------------------------------------------------------------------
\* serialize
\* ------------------------------------------------------------------------
TurtleNames == { <<"t","t","l">>, <<"t","u","r","t","l","e">> }
JsonLdNames == { <<"j","s","o","n","l","d">>, <<"j","s","o","n","-","l","d">> }
XmlNames ==
  { <<"x","m","l">>, <<"r","d","f">>, <<"r","d","f","x","m","l">>,
    <<"r","d","f","/","x","m","l">> }
NTriplesNames ==
  { <<"n","t">>, <<"n","t","r","i","p","l","e","s">>,
    <<"n","-","t","r","i","p","l","e","s">> }

\* g.serialize(format=...): the payload is the graph written in that syntax
Payload(g, syntax) == [syntax |-> syntax, graph |-> g]

Served(payload, content_type) ==
  [ok |-> TRUE, payload |-> payload, content_type |-> content_type]

ValueError(format) ==
  [ok |-> FALSE, message |-> <<"Unsupported format: ", format>>]

serialize(g, format) ==
  LET fmt == Lower(format) IN
  IF fmt \in TurtleNames THEN Served(Payload(g, "turtle"), "text/turtle")
  ELSE IF fmt \in JsonLdNames
    THEN Served(Payload(g, "json-ld"), "application/ld+json")
  ELSE IF fmt \in XmlNames
    THEN Served(Payload(g, "xml"), "application/rdf+xml")
  ELSE IF fmt \in NTriplesNames
    THEN Served(Payload(g, "nt"), "application/n-triples")
  ELSE ValueError(format)

\* ------------------------------------------------------------------------
\* Source file contents and what g.parse makes of them
\* ------------------------------------------------------------------------
tAb == <<"A", "b">>
ta == <<"a">>
tb == <<"b">>
td == <<"d">>

c1 == Concept("c1", <<Lit(tAb, "en"), Lit(tb, "fr")>>, << >>, <<Lit(td, "en")>>)
c2 == Concept("c2", << >>, <<Lit(ta, NoLang)>>, << >>)
c3 == Concept("c3", << >>, << >>, << >>)
c4 == Concept("c4", <<Lit(tb, "fr")>>, << >>, <<Lit(td, "fr")>>)
c5 == Concept("c5", <<Iri(<<"u">>)>>, <<Lit(<< >>, "en")>>, << >>)

ConceptPool == {c1, c2, c3, c4, c5}

Malformed == "malformed"
GoodContents == {"v1", "v2"}
Contents == GoodContents \cup {Malformed}

\* Graph().parse(path, format="turtle") on well-formed contents
ParsedGraph(content) == IF content = "v1" THEN <<c1>> ELSE <<c1, c2>>

NoMtime == 0
Mtimes == 1..MaxMtime

Absent == [mtime |-> NoMtime, content |-> "absent"]
FileStates == {Absent} \cup [mtime : Mtimes, content : Contents]

\* os.path.getmtime, with FileNotFoundError leaving mtime = None
getmtime(f) == f.mtime

\* os.path.exists
exists(f) == f # Absent

Snapshot(gen, concepts) == [kind |-> "graph", gen |-> gen, concepts |-> concepts]

\* ------------------------------------------------------------------------
\* State
\* ------------------------------------------------------------------------
NoThread == 0
Threads == 1..NumThreads

VARIABLES
  file,                \* the Turtle file at ttl_path
  graph,               \* self._graph
  last_loaded_mtime,   \* self._last_loaded_mtime
  graph_lock,          \* holder of self._graph_lock, or NoThread
  pc,                  \* per thread: position in the running call
  kind,                \* per thread: "ensure", "list" or "reload"
  args,                \* per thread: limit and offset of list_concepts
  mtime,               \* per thread: local mtime of _ensure_loaded
  g,                   \* per thread: local g of list_concepts
  result,              \* per thread: value returned by list_concepts
  loads,               \* history: load attempts begun (line 38 reached);
                       \* a snapshot carries the number of its attempt
  prior,               \* history, per thread: self._graph when the call
                       \* first took the lock
  mark,                \* history, per thread: for reload, loads when it
                       \* cleared; for list, freshFloor when it started
  freshFloor,          \* history: largest mark of a reload that returned
  inp,                 \* arguments of the query helper under test
  out,                 \* its result
  stage                \* progress of the helper call

svcVars == <<graph, last_loaded_mtime, graph_lock>>
thrVars == <<pc, kind, args, mtime, g, result>>
histVars == <<loads, prior, mark, freshFloor>>
helperVars == <<inp, out, stage>>
vars == <<file, svcVars, thrVars, histVars, helperVars>>

NoArgs == [limit |-> 0, offset |-> 0]

\* SKOSGraphService.__init__, no request running
Constructed ==
  /\ graph = None
  /\ last_loaded_mtime = NoMtime
  /\ graph_lock = NoThread
  /\ pc = [t \in Threads |-> "idle"]
  /\ kind = [t \in Threads |-> "list"]
  /\ args = [t \in Threads |-> NoArgs]
  /\ mtime = [t \in Threads |-> NoMtime]
  /\ g = [t \in Threads |-> None]
  /\ result = [t \in Threads |-> None]
  /\ loads = 0
  /\ prior = [t \in Threads |-> None]
  /\ mark = [t \in Threads |-> 0]
  /\ freshFloor = 0

NoHelper ==
  /\ inp = None
  /\ out = None
  /\ stage = "unused"

Max(a, b) == IF a > b THEN a ELSE b

\* ------------------------------------------------------------------------
\* The environment: the import tool (or anyone) rewrites or removes the file
\* ------------------------------------------------------------------------
WriteFile(m, c) ==
  /\ file' = [mtime |-> m, content |-> c]
  /\ file' # file
  /\ UNCHANGED <<svcVars, thrVars, histVars, helperVars>>

DeleteFile ==
  /\ file # Absent
  /\ file' = Absent
  /\ UNCHANGED <<svcVars, thrVars, histVars, helperVars>>

\* ------------------------------------------------------------------------
\* Requests
\* ------------------------------------------------------------------------
\* Each thread serves one request.
Finished(t) == pc[t] \in {"done", "raised_parse", "raised_io",
                          "raised_assert", "raised_attr"}

\* a bare _ensure_loaded() call
StartEnsure(t) ==
  /\ pc[t] = "idle"
  /\ kind' = [kind EXCEPT ![t] = "ensure"]
  /\ pc' = [pc EXCEPT ![t] = "el_lock"]
  /\ UNCHANGED <<file, svcVars, args, mtime, g, result, histVars, helperVars>>

StartList(t, limit, offset) ==
  /\ pc[t] = "idle"
  /\ kind' = [kind EXCEPT ![t] = "list"]
  /\ args' = [args EXCEPT ![t] = [limit |-> limit, offset |-> offset]]
  /\ pc' = [pc EXCEPT ![t] = "el_lock"]
  /\ mark' = [mark EXCEPT ![t] = freshFloor]
  /\ UNCHANGED <<file, svcVars, mtime, g, result, loads, prior, freshFloor,
                 helperVars>>

StartReload(t) ==
  /\ pc[t] = "idle"
  /\ kind' = [kind EXCEPT ![t] = "reload"]
  /\ pc' = [pc EXCEPT ![t] = "rl_lock"]
  /\ UNCHANGED <<file, svcVars, args, mtime, g, result, histVars, helperVars>>

\* ------------------------------------------------------------------------
\* reload, lines 45-47: clear under the lock, then _ensure_loaded
\* ------------------------------------------------------------------------
CanAcquire_NoLock == TRUE

CanAcquire == graph_lock = NoThread

ReloadClear(t) ==
  /\ pc[t] = "rl_lock"
  /\ CanAcquire
  /\ graph' = None
  /\ last_loaded_mtime' = NoMtime
  /\ prior' = [prior EXCEPT ![t] = graph]
  /\ mark' = [mark EXCEPT ![t] = loads]
  /\ pc' = [pc EXCEPT ![t] = "el_lock"]
  /\ UNCHANGED <<file, graph_lock, kind, args, mtime, g, result, loads, freshFloor, helperVars>>

\* ------------------------------------------------------------------------
\* _ensure_loaded
\* ------------------------------------------------------------------------
CacheHit_IgnoreMtime(observed) == graph # None

CacheHit(observed) == graph # None /\ last_loaded_mtime = observed

\* where the caller of _ensure_loaded continues: get_graph goes on to its
\* assertion, reload and a bare call return
AfterEnsure(t) == IF kind[t] = "list" THEN "gg_assert" ELSE "done"

ReloadReturned(t) ==
  IF kind[t] = "reload" THEN Max(freshFloor, mark[t]) ELSE freshFloor

\* lines 28-36: lock taken, mtime read, snapshot current: return
EnsureLoadedHit(t) ==
  /\ pc[t] = "el_lock"
  /\ CanAcquire
  /\ CacheHit(getmtime(file))
  /\ pc' = [pc EXCEPT ![t] = AfterEnsure(t)]
  /\ freshFloor' = ReloadReturned(t)
  /\ prior' = [prior EXCEPT ![t] = None]
  /\ mark' = [mark EXCEPT ![t] = IF kind[t] = "reload" THEN 0 ELSE @]
  /\ UNCHANGED <<file, svcVars, kind, args, mtime, g, result, loads,
                 helperVars>>

\* lines 28-38: lock taken, mtime read, snapshot missing or stale
EnsureLoadedMiss(t) ==
  /\ pc[t] = "el_lock"
  /\ CanAcquire
  /\ ~CacheHit(getmtime(file))
  /\ graph_lock' = t
  /\ mtime' = [mtime EXCEPT ![t] = getmtime(file)]
  /\ loads' = loads + 1
  /\ prior' = [prior EXCEPT ![t] = IF kind[t] = "reload" THEN @ ELSE graph]
  /\ pc' = [pc EXCEPT ![t] = "el_exists"]
  /\ UNCHANGED <<file, graph, last_loaded_mtime, kind, args, g, result,
                 mark, freshFloor, helperVars>>

\* lines 41-42 and the release of the lock
Install(t, concepts) ==
  /\ graph' = Snapshot(loads, concepts)
  /\ last_loaded_mtime' = mtime[t]
  /\ graph_lock' = NoThread
  /\ pc' = [pc EXCEPT ![t] = AfterEnsure(t)]
  /\ freshFloor' = ReloadReturned(t)
  /\ mtime' = [mtime EXCEPT ![t] = NoMtime]
  /\ prior' = [prior EXCEPT ![t] = None]
  /\ mark' = [mark EXCEPT ![t] = IF kind[t] = "reload" THEN 0 ELSE @]
  /\ UNCHANGED <<file, kind, args, g, result, loads, helperVars>>

\* an exception leaves the with block: the lock is released, nothing stored
\* (the locals and the history kept for the call end with it)
Raise(t, where) ==
  /\ graph_lock' = NoThread
  /\ pc' = [pc EXCEPT ![t] = where]
  /\ mtime' = [mtime EXCEPT ![t] = NoMtime]
  /\ prior' = [prior EXCEPT ![t] = None]
  /\ mark' = [mark EXCEPT ![t] = 0]
  /\ UNCHANGED <<file, graph, last_loaded_mtime, kind, args, g, result,
                 loads, freshFloor, helperVars>>

\* line 39, file there: go on to parse it
ExistsYes(t) ==
  /\ pc[t] = "el_exists"
  /\ exists(file)
  /\ pc' = [pc EXCEPT ![t] = "el_parse"]
  /\ UNCHANGED <<file, svcVars, kind, args, mtime, g, result, histVars, helperVars>>

\* line 39, no file: the empty Graph() is installed
ExistsNo(t) ==
  /\ pc[t] = "el_exists"
  /\ ~exists(file)
  /\ Install(t, << >>)

\* line 40 on well-formed contents
ParseOk(t) ==
  /\ pc[t] = "el_parse"
  /\ exists(file)
  /\ file.content # Malformed
  /\ Install(t, ParsedGraph(file.content))

\* line 40 on malformed contents
ParseMalformed(t) ==
  /\ pc[t] = "el_parse"
  /\ exists(file)
  /\ file.content = Malformed
  /\ Raise(t, "raised_parse")

\* line 40 when the file was removed after line 39 saw it
ParseMissing(t) ==
  /\ pc[t] = "el_parse"
  /\ ~exists(file)
  /\ Raise(t, "raised_io")

\* ------------------------------------------------------------------------
\* get_graph, lines 52-53: two reads of self._graph without the lock
\* ------------------------------------------------------------------------
AssertLoaded(t) ==
  /\ pc[t] = "gg_assert"
  /\ pc' = [pc EXCEPT ![t] = IF graph # None THEN "gg_return"
                                             ELSE "raised_assert"]
  /\ mark' = [mark EXCEPT ![t] = IF graph # None THEN @ ELSE 0]
  /\ UNCHANGED <<file, svcVars, kind, args, mtime, g, result, loads, prior, freshFloor, helperVars>>

ReturnGraph(t) ==
  /\ pc[t] = "gg_return"
  /\ g' = [g EXCEPT ![t] = graph]
  /\ pc' = [pc EXCEPT ![t] = "lc_body"]
  /\ mark' = [mark EXCEPT ![t] = 0]
  /\ UNCHANGED <<file, svcVars, kind, args, mtime, result, loads, prior, freshFloor, helperVars>>

\* ------------------------------------------------------------------------
\* list_concepts, lines 58-67, on the local g
\* ------------------------------------------------------------------------
ListBody(t) ==
  /\ pc[t] = "lc_body"
  /\ g[t] # None
  /\ result' = [result EXCEPT ![t] =
                  list_concepts(g[t].concepts, args[t].limit,
                                args[t].offset, NoLang)]
  /\ pc' = [pc EXCEPT ![t] = "done"]
  /\ g' = [g EXCEPT ![t] = None]
  /\ UNCHANGED <<file, svcVars, kind, args, mtime, histVars,
                 helperVars>>

\* line 61 on g = None: AttributeError
ListBodyNone(t) ==
  /\ pc[t] = "lc_body"
  /\ g[t] = None
  /\ pc' = [pc EXCEPT ![t] = "raised_attr"]
  /\ UNCHANGED <<file, svcVars, kind, args, mtime, g, result, histVars, helperVars>>

ListLimits == {1}
ListOffsets == {0}

Init ==
  /\ file \in FileStates
  /\ Constructed
  /\ NoHelper

\* ------------------------------------------------------------------------
\* Spec: the load and cache manager under concurrent _ensure_loaded() and
\* reload() calls, while the file changes
\* ------------------------------------------------------------------------
Next ==
  \/ \E t \in Threads : StartEnsure(t)
  \/ \E t \in Threads : StartReload(t)
  \/ \E t \in Threads : ReloadClear(t)
  \/ \E t \in Threads : EnsureLoadedHit(t)
  \/ \E t \in Threads : EnsureLoadedMiss(t)
  \/ \E t \in Threads : ExistsYes(t)
  \/ \E t \in Threads : ExistsNo(t)
  \/ \E t \in Threads : ParseOk(t)
  \/ \E t \in Threads : ParseMalformed(t)
  \/ \E t \in Threads : ParseMissing(t)
  \/ \E m \in Mtimes, c \in Contents : WriteFile(m, c)
  \/ DeleteFile

Spec == Init /\ [][Next]_vars

\* ------------------------------------------------------------------------
\* SpecStable: list_concepts requests only, on a file that never changes
\* ------------------------------------------------------------------------
NextStable ==
  \/ \E t \in Threads, limit \in ListLimits, offset \in ListOffsets :
       StartList(t, limit, offset)
  \/ \E t \in Threads : EnsureLoadedHit(t)
  \/ \E t \in Threads : EnsureLoadedMiss(t)
  \/ \E t \in Threads : ExistsYes(t)
  \/ \E t \in Threads : ExistsNo(t)
  \/ \E t \in Threads : ParseOk(t)
  \/ \E t \in Threads : ParseMalformed(t)
  \/ \E t \in Threads : AssertLoaded(t)
  \/ \E t \in Threads : ReturnGraph(t)
  \/ \E t \in Threads : ListBody(t)

SpecStable == Init /\ [][NextStable]_vars

\* ------------------------------------------------------------------------
\* SpecParses: list_concepts and reload requests on concurrent threads,
\* with a file that changes but whose contents always parse
\* ------------------------------------------------------------------------
InitParses ==
  /\ file \in {f \in FileStates : f.content # Malformed}
  /\ Constructed
  /\ NoHelper

NextParses ==
  \/ \E t \in Threads, limit \in ListLimits, offset \in ListOffsets :
       StartList(t, limit, offset)
  \/ \E t \in Threads : StartReload(t)
  \/ \E t \in Threads : ReloadClear(t)
  \/ \E t \in Threads : EnsureLoadedHit(t)
  \/ \E t \in Threads : EnsureLoadedMiss(t)
  \/ \E t \in Threads : ExistsYes(t)
  \/ \E t \in Threads : ExistsNo(t)
  \/ \E t \in Threads : ParseOk(t)
  \/ \E t \in Threads : ParseMissing(t)
  \/ \E t \in Threads : AssertLoaded(t)
  \/ \E t \in Threads : ReturnGraph(t)
  \/ \E t \in Threads : ListBody(t)
  \/ \E t \in Threads : ListBodyNone(t)
  \/ \E m \in Mtimes, c \in GoodContents : WriteFile(m, c)
  \/ DeleteFile

SpecParses == InitParses /\ [][NextParses]_vars

\* ------------------------------------------------------------------------
\* Inputs of the query helpers
\* ------------------------------------------------------------------------
SeqsUpTo(S, n) == UNION {[1..k -> S] : k \in 0..n}

Distinct(q) == \A j, k \in 1..Len(q) : j # k => q[j] # q[k]

Languages == {"en", "fr"}

Candidates ==
  {Lit(text, lang) : text \in {<< >>, ta, tb}, lang \in Languages \cup {NoLang}}
    \cup {Iri(<<"u">>)}

Graphs == {q \in SeqsUpTo(ConceptPool, MaxConcepts) : Distinct(q)}

Queries == {<< >>, ta, <<"A">>, tb, <<"a", "b">>, <<"B", "A">>}

UpperChar(c) == IF c \in DOMAIN UpperOf THEN UpperOf[c] ELSE c

RECURSIVE CaseVariants(_)
CaseVariants(name) ==
  IF name = << >> THEN {<< >>}
  ELSE {<<c>> \o rest : c \in {name[1], UpperChar(name[1])},
                        rest \in CaseVariants(Tail(name))}

RdfDashXml == <<"r","d","f","-","x","m","l">>
RdfSlashXml == <<"r","d","f","/","x","m","l">>

FormatNames ==
  TurtleNames \cup JsonLdNames \cup XmlNames \cup NTriplesNames
    \cup {RdfDashXml, <<"c","s","v">>, << >>, <<"t","t">>}

Formats == UNION {CaseVariants(name) : name \in FormatNames}

HelperInit(inputs) ==
  /\ file = Absent
  /\ Constructed
  /\ inp \in inputs
  /\ out = None
  /\ stage = "ready"

HelperDone(value) ==
  /\ stage = "ready"
  /\ out' = value
  /\ stage' = "done"
  /\ UNCHANGED <<file, svcVars, thrVars, histVars, inp>>

\* ------------------------------------------------------------------------
\* SpecSelect: one call of _select_lang_literal
\* ------------------------------------------------------------------------
InitSelect ==
  HelperInit([literals : SeqsUpTo(Candidates, MaxLits), language : Languages])

CallSelect == HelperDone(select_lang_literal(inp.literals, inp.language))

SpecSelect == InitSelect /\ [][CallSelect]_vars

\* ------------------------------------------------------------------------
\* SpecSearch: one call of search_concepts on a loaded graph
\* ------------------------------------------------------------------------
InitSearch ==
  HelperInit([g : Graphs, query : Queries, limit : (-1)..MaxLimit,
              language : Languages \cup {NoLang}])

CallSearch ==
  HelperDone(search_concepts(inp.g, inp.query, inp.limit, inp.language))

SpecSearch == InitSearch /\ [][CallSearch]_vars

\* ------------------------------------------------------------------------
\* SpecSerialize: one call of serialize on a loaded graph
\* ------------------------------------------------------------------------
InitSerialize == HelperInit([g : {<< >>, <<c1>>}, format : Formats])

CallSerialize == HelperDone(serialize(inp.g, inp.format))

SpecSerialize == InitSerialize /\ [][CallSerialize]_vars

\* ------------------------------------------------------------------------
\* SpecList: a client pages through one snapshot with list_concepts at
\* offsets 0, limit, 2*limit, ...
\* ------------------------------------------------------------------------
InitList ==
  /\ file = Absent
  /\ Constructed
  /\ inp \in [g : Graphs, limit : 1..MaxLimit, language : Languages \cup {NoLang}]
  /\ out = [concepts |-> << >>, totals |-> {}, offset |-> 0]
  /\ stage = "paging"

NextPage ==
  /\ stage = "paging"
  /\ out.offset <= MaxOffset
  /\ LET r == list_concepts(inp.g, inp.limit, out.offset, inp.language) IN
       out' = [concepts |-> out.concepts \o r.concepts,
               totals |-> out.totals \cup {r.total},
               offset |-> out.offset + inp.limit]
  /\ UNCHANGED <<file, svcVars, thrVars, histVars, inp, stage>>

SpecList == InitList /\ [][NextPage]_vars

\* ========================================================================
\* Properties
\* ========================================================================
Loading == {t \in Threads : pc[t] \in {"el_exists", "el_parse"}}

PastEnsure(t) == pc[t] \in {"gg_assert", "gg_return", "lc_body", "done"}

AllFinished == \A t \in Threads : Finished(t)

\* C1 as stated: with an unchanging file, at most one load is in progress at
\* any time (a caller arriving meanwhile waits at the lock), never more than
\* one load happens, and once every caller is through exactly one has.
C1_OneParseInTotal ==
  /\ Cardinality(Loading) <= 1
  /\ \A t \in Loading : graph_lock = t
  /\ loads <= 1
  /\ AllFinished => loads = 1

\* C1 amended: the count of exactly one load holds when the unchanging file
\* is well-formed or absent; at most one load is in progress in every case.
C1_OneParseWhenFileParses ==
  /\ Cardinality(Loading) <= 1
  /\ \A t \in Loading : graph_lock = t
  /\ file.content # Malformed =>
       /\ loads <= 1
       /\ (\E t \in Threads : PastEnsure(t)) => loads = 1
       /\ AllFinished => loads = 1 /\ \A t \in Threads : pc[t] = "done"

C1_Witness ==
  /\ file.content \in GoodContents
  /\ \A t \in Threads : pc[t] = "done" /\ kind[t] = "list"
  /\ loads = 1

\* C2 as stated: when a parse fails, in a query or in reload(), nothing is
\* installed and the snapshot that was current when the call began is still
\* the current one (the service is unloaded only if it was before).
C2_FailedParseKeepsPriorState ==
  [][\A t \in Threads :
       (pc[t] = "el_parse" /\ pc'[t] = "raised_parse") =>
         /\ graph' = graph
         /\ last_loaded_mtime' = last_loaded_mtime
         /\ graph' = prior[t]]_vars

LeavesLock(t) == pc[t] = "el_lock" /\ pc'[t] # "el_lock"

EndsLoad(t) ==
  /\ pc[t] \in {"el_exists", "el_parse"}
  /\ pc'[t] \notin {"el_exists", "el_parse"}

HitOrOneLoad(t) ==
  LeavesLock(t) =>
    IF graph # None /\ last_loaded_mtime = getmtime(file)
    THEN /\ graph' = graph
         /\ last_loaded_mtime' = last_loaded_mtime
         /\ loads' = loads
         /\ pc'[t] = AfterEnsure(t)
    ELSE /\ loads' = loads + 1
         /\ mtime'[t] = getmtime(file)
         /\ pc'[t] = "el_exists"

Replaced(t) ==
  /\ pc'[t] = AfterEnsure(t)
  /\ graph' # None
  /\ graph'.gen = loads
  /\ graph' # graph
  /\ last_loaded_mtime' = mtime[t]
  /\ loads' = loads

\* C3 as stated: _ensure_loaded returns untouched on a current snapshot, and
\* otherwise loads once, replaces the snapshot and records the observed
\* timestamp; an observed-missing file gives the empty graph and "absent".
C3_EnsureLoadedTransition ==
  [][\A t \in Threads :
       /\ HitOrOneLoad(t)
       /\ EndsLoad(t) =>
            /\ Replaced(t)
            /\ mtime[t] = NoMtime =>
                 graph'.concepts = << >> /\ last_loaded_mtime' = NoMtime]_vars

\* C3 amended: the load replaces the snapshot and records the observed
\* timestamp unless it raises (malformed contents, or the file removed
\* between the existence check and the parse), which leaves snapshot and
\* timestamp as they were; a file missing both when the timestamp is read
\* and at the existence check gives the empty graph and "absent".
C3_EnsureLoadedUnlessRaise ==
  [][\A t \in Threads :
       /\ HitOrOneLoad(t)
       /\ EndsLoad(t) =>
            IF pc[t] = "el_parse" /\ (file.content = Malformed \/ ~exists(file))
            THEN /\ pc'[t] \in {"raised_parse", "raised_io"}
                 /\ graph' = graph
                 /\ last_loaded_mtime' = last_loaded_mtime
                 /\ loads' = loads
            ELSE /\ Replaced(t)
                 /\ graph'.concepts =
                      IF exists(file) THEN ParsedGraph(file.content) ELSE << >>
                 /\ (mtime[t] = NoMtime /\ ~exists(file)) =>
                      last_loaded_mtime' = NoMtime]_vars

C3_Witness ==
  /\ \A t \in Threads : pc[t] = "done" /\ kind[t] = "ensure"
  /\ loads = 2
  /\ graph = Snapshot(2, ParsedGraph("v2"))
  /\ last_loaded_mtime = 2

PageIris(r) == [k \in 1..Len(r.concepts) |-> r.concepts[k].iri]

IrisOf(concepts) == [k \in 1..Len(concepts) |-> concepts[k].iri]

\* C4 as stated: a list_concepts call running alongside reload() completes,
\* takes total and page from the one snapshot it obtained, and a call
\* started after a reload() returned gets a snapshot loaded after that
\* reload discarded the old one.
C4_InFlightListCompletes ==
  [][\A t \in Threads :
       kind[t] = "list" =>
         /\ pc'[t] \notin {"raised_assert", "raised_attr"}
         /\ (pc[t] = "lc_body" /\ pc'[t] = "done") =>
              /\ result'[t].total = Len(g[t].concepts)
              /\ PageIris(result'[t]) =
                   IrisOf(PySlice(g[t].concepts, args[t].offset,
                                  args[t].offset + args[t].limit))
         /\ (pc[t] = "gg_return" /\ pc'[t] = "lc_body" /\ g'[t] # None) =>
              g'[t].gen > mark[t]]_vars

\* C10 as stated: with a file that always parses, get_graph's assertion
\* never fails and the graph it hands to the query is never None.
C10_GetGraphNeverNone ==
  \A t \in Threads :
    /\ pc[t] # "raised_assert"
    /\ pc[t] = "lc_body" => g[t] # None

IndicesWhere(literals, Test(_)) == {k \in 1..Len(literals) : Test(literals[k])}

Least(S) == CHOOSE k \in S : \A j \in S : k <= j

Greatest(S) == CHOOSE k \in S : \A j \in S : k >= j

\* C5 as stated: the selector returns the first candidate tagged with the
\* requested language, else the last language-less candidate, else the
\* first candidate, else nothing - whatever the candidates' texts.
C5_SelectorPriority ==
  stage = "done" =>
    LET exact == IndicesWhere(inp.literals,
                   LAMBDA x : IsLiteral(x) /\ x.lang = inp.language)
        langless == IndicesWhere(inp.literals,
                      LAMBDA x : IsLiteral(x) /\ x.lang = NoLang)
    IN out = IF exact # {} THEN inp.literals[Least(exact)]
             ELSE IF langless # {} THEN inp.literals[Greatest(langless)]
             ELSE IF Len(inp.literals) > 0 THEN inp.literals[1]
             ELSE None

\* C6 as stated: search_concepts returns at most limit items, limit = 0
\* included.
C6_AtMostLimit ==
  (stage = "done" /\ inp.limit >= 0) => Len(out) <= inp.limit

\* C7 as stated: with the empty query and limit at least the number of
\* concepts, the result has one item for every concept of the graph.
C7_EmptyQueryMatchesEvery ==
  (stage = "done" /\ inp.query = << >> /\ inp.limit >= Len(inp.g)) =>
    IrisOf(out) = IrisOf(inp.g)

HasUsableLabel(c, language) ==
  \E k \in 1..Len(c.pref \o c.alt) :
    LET label == (c.pref \o c.alt)[k] IN
      label.kind = "lit" /\ label.lang \in {NoLang, language}

\* C7 amended: with the empty query and limit at least the number of
\* concepts, the result has one item, in graph order, for exactly the
\* concepts that have a prefLabel/altLabel literal that is language-less or
\* tagged with the requested language.
C7_EmptyQueryMatchesLabelled ==
  (stage = "done" /\ inp.query = << >> /\ inp.limit >= Len(inp.g)) =>
    LET language == IF inp.language = NoLang THEN default_language
                    ELSE inp.language
        Labelled(c) == HasUsableLabel(c, language)
    IN IrisOf(out) = IrisOf(SelectSeq(inp.g, Labelled))

C7_Witness ==
  /\ stage = "done"
  /\ inp.query = << >>
  /\ inp.limit >= Len(inp.g)
  /\ inp.language = "fr"
  /\ inp.g = <<c3, c2>>
  /\ Len(out) = 1

Folds(format, names) ==
  \E name \in names :
    /\ Len(name) = Len(format)
    /\ \A k \in 1..Len(name) : format[k] \in {name[k], UpperChar(name[k])}

ServedAs(content_type) == out.ok /\ out.content_type = content_type

Rejected ==
  /\ ~out.ok
  /\ out.message[2] = inp.format
  /\ "payload" \notin DOMAIN out

MapsFormats(turtle, jsonld, xml, ntriples) ==
  stage = "done" =>
    IF Folds(inp.format, turtle) THEN ServedAs("text/turtle")
    ELSE IF Folds(inp.format, jsonld) THEN ServedAs("application/ld+json")
    ELSE IF Folds(inp.format, xml) THEN ServedAs("application/rdf+xml")
    ELSE IF Folds(inp.format, ntriples) THEN ServedAs("application/n-triples")
    ELSE Rejected

\* C8 as stated: in any letter case, turtle/ttl, jsonld/json-ld,
\* xml/rdf/rdfxml/rdf-xml and nt/ntriples/n-triples get their content type,
\* and every other name is rejected with an error naming it and no payload.
C8_FormatTable ==
  MapsFormats({<<"t","u","r","t","l","e">>, <<"t","t","l">>},
              {<<"j","s","o","n","l","d">>, <<"j","s","o","n","-","l","d">>},
              {<<"x","m","l">>, <<"r","d","f">>, <<"r","d","f","x","m","l">>,
               RdfDashXml},
              {<<"n","t">>, <<"n","t","r","i","p","l","e","s">>,
               <<"n","-","t","r","i","p","l","e","s">>})

\* C8 amended: the fourth XML alias is rdf/xml, not rdf-xml; rdf-xml is
\* rejected like every other name.
C8_FormatTableRdfSlashXml ==
  MapsFormats({<<"t","u","r","t","l","e">>, <<"t","t","l">>},
              {<<"j","s","o","n","l","d">>, <<"j","s","o","n","-","l","d">>},
              {<<"x","m","l">>, <<"r","d","f">>, <<"r","d","f","x","m","l">>,
               RdfSlashXml},
              {<<"n","t">>, <<"n","t","r","i","p","l","e","s">>,
               <<"n","-","t","r","i","p","l","e","s">>})

C8_Witness ==
  /\ stage = "done"
  /\ inp.format = <<"R","d","F","/","X","m","l">>
  /\ out.ok
  /\ out.content_type = "application/rdf+xml"

Smaller(a, b) == IF a < b THEN a ELSE b

\* C9: paging one snapshot at offsets 0, limit, 2*limit, ... with limit >= 1
\* yields the concepts in order without repeats (all of them once the
\* offset has passed the end), and every call reports the full count.
C9_PagesReconstruct ==
  stage = "paging" =>
    /\ out.totals \subseteq {Len(inp.g)}
    /\ IrisOf(out.concepts) =
         IrisOf(SubSeq(inp.g, 1, Smaller(out.offset, Len(inp.g))))
    /\ out.offset >= Len(inp.g) =>
         /\ Len(out.concepts) = Len(inp.g)
         /\ \A k \in 1..Len(inp.g) : out.concepts[k].iri = inp.g[k].iri

C9_Witness ==
  /\ stage = "paging"
  /\ Len(inp.g) = 2
  /\ inp.limit = 1
  /\ out.offset = 3
  /\ Len(out.concepts) = 2
  /\ out.totals = {2}

====
